---- MODULE Spec2Model ----
(***************************************************************************)
(* A model of the evaluation context of Rudi (pkg/eval/types/context.go)   *)
(* and of the built-in function registry (pkg/builtin).                    *)
(*                                                                         *)
(* Go maps and *Document are references: they are modelled as addresses    *)
(* into heaps (sequences; the address is the index, 0 is the nil           *)
(* reference).  A Context is a struct value holding three addresses and a  *)
(* coalescer.                                                              *)
(***************************************************************************)
EXTENDS Integers, Sequences, FiniteSets, TLC

VARIABLES
    docs,      \* heap of Document structs: docs[d] = [data |-> value]
    vmaps,     \* heap of Variables maps (name -> value)
    fmaps,     \* heap of Functions maps (name -> Function)
    ctxs,      \* the Context values the host / evaluator holds
    lineage,   \* history: how each Context of ctxs was made
    last,      \* history: the last call made on a Variables or Functions set
    pkg,       \* package builtin: AllFunctions while its initializer runs
    ev         \* the evaluator: status and result of a Run, and its history

vars == <<docs, vmaps, fmaps, ctxs, lineage, last, pkg, ev>>

----------------------------------------------------------------------------
(* Bounds of the model. *)

MaxCtx == 3
MaxVarSets == 3
MaxFuncSets == 2
MaxInt == 2
MaxDepth == 2
MaxItems == 2
MaxStatements == 2

Names == {"x", "y"}
FuncNames == {"f", "g"}

----------------------------------------------------------------------------
(* Values.  Everything is a tagged record so that any two can be compared. *)

Nil == [k |-> "nil"]
NilAddr == 0

VInt(i) == [k |-> "int", i |-> i]
Values == {VInt(1), VInt(2)}
DocumentData0 == VInt(0)

Func(name) == [k |-> "func", f |-> name, site |-> "host"]
Funcs == {Func("F1"), Func("F2")}

NewPedantic == [k |-> "coalescer", mode |-> "pedantic"]
NewStrict == [k |-> "coalescer", mode |-> "strict"]
NewHumane == [k |-> "coalescer", mode |-> "humane"]
Coalescers == {NewPedantic, NewStrict, NewHumane}

----------------------------------------------------------------------------
(* Go maps: a finite function; a missing key reads as the zero value.      *)

EmptyMap == [n \in {} |-> Nil]

MapGet(m, name) ==
    IF name \in DOMAIN m THEN [val |-> m[name], ok |-> TRUE]
    ELSE [val |-> Nil, ok |-> FALSE]

MapPut(m, name, val) == (name :> val) @@ m

MapDel(m, name) == [n \in (DOMAIN m) \ {name} |-> m[n]]

(* The orders in which a range loop may visit the keys of a map: every      *)
(* order of a small map; of a larger one, one order, read from each of its  *)
(* places on and around, forwards and backwards.                            *)
RECURSIVE SomeOrder(_)
SomeOrder(S) ==
    IF S = {} THEN <<>>
    ELSE LET x == CHOOSE y \in S : TRUE IN <<x>> \o SomeOrder(S \ {x})

Rotated(s, r) == [i \in 1..Len(s) |-> s[((i + r - 1) % Len(s)) + 1]]

Reversed(s) == [i \in 1..Len(s) |-> s[Len(s) + 1 - i]]

Orders(S) ==
    IF Cardinality(S) <= 3
    THEN {s \in [1..Cardinality(S) -> S] :
             \A i, j \in 1..Cardinality(S) : i # j => s[i] # s[j]}
    ELSE LET s == SomeOrder(S)
         IN  {Rotated(s, r) : r \in 0..(Len(s) - 1)}
                 \cup {Reversed(Rotated(s, r)) : r \in 0..(Len(s) - 1)}

----------------------------------------------------------------------------
(* Document *)

NewDocument(data) == [data |-> data]

DocumentData(hp, d) == hp[d].data

(* A Set with a value receiver: it changes a copy of the Document. *)
DocumentSetOnCopy(hp, d, wrappedData) == hp

DocumentSet(hp, d, wrappedData) == [hp EXCEPT ![d].data = wrappedData]

----------------------------------------------------------------------------
(* Variables.  Operators that allocate or mutate return the new heap and   *)
(* the address of the map they return.                                     *)

NewVariables == EmptyMap

VariablesGet(hp, v, name) ==
    IF v = NilAddr THEN MapGet(EmptyMap, name) ELSE MapGet(hp[v], name)

VariablesSet(hp, v, name, val) ==
    [heap |-> [hp EXCEPT ![v] = MapPut(@, name, val)], addr |-> v]

RECURSIVE CopyLoop(_, _, _)
CopyLoop(src, order, result) ==
    IF order = <<>> THEN result
    ELSE CopyLoop(src, Tail(order), MapPut(result, Head(order), src[Head(order)]))

(* A DeepCopy that hands back the receiver instead of a copy. *)
VariablesDeepCopyAlias(hp, v, order) == [heap |-> hp, addr |-> v]

VariablesDeepCopy(hp, v, order) ==
    [heap |-> Append(hp, CopyLoop(hp[v], order, NewVariables)), addr |-> Len(hp) + 1]

(* A With that sets the variable in the receiver itself. *)
VariablesWithInPlace(hp, v, name, val, order) == VariablesSet(hp, v, name, val)

VariablesWith(hp, v, name, val, order) ==
    LET c == VariablesDeepCopy(hp, v, order)
    IN  VariablesSet(c.heap, c.addr, name, val)

----------------------------------------------------------------------------
(* Functions *)

NewFunctions == EmptyMap

FunctionsGet(hp, f, name) ==
    IF f = NilAddr THEN MapGet(EmptyMap, name) ELSE MapGet(hp[f], name)

FunctionsSet(hp, f, name, fun) ==
    [heap |-> [hp EXCEPT ![f] = MapPut(@, name, fun)], addr |-> f]

FunctionsDelete(hp, f, name) ==
    [heap |-> [hp EXCEPT ![f] = MapDel(@, name)], addr |-> f]

(* A loop of Add that returns after the first entry it visits. *)
AddLoopReturnsEarly(hp, f, other, order) ==
    IF order = <<>> THEN hp
    ELSE [hp EXCEPT ![f] = MapPut(@, Head(order), hp[other][Head(order)])]

RECURSIVE AddLoop(_, _, _, _)
AddLoop(hp, f, other, order) ==
    IF order = <<>> THEN hp
    ELSE AddLoop([hp EXCEPT ![f] = MapPut(@, Head(order), hp[other][Head(order)])],
                 f, other, Tail(order))

(* An Add that keeps the function a name is already bound to. *)
FunctionsAddKeepsOld(hp, f, other, order) ==
    [heap |-> [hp EXCEPT ![f] = [n \in (DOMAIN hp[f]) \cup (DOMAIN hp[other]) |->
                                    IF n \in DOMAIN hp[f] THEN hp[f][n] ELSE hp[other][n]]],
     addr |-> f]

FunctionsAdd(hp, f, other, order) == [heap |-> AddLoop(hp, f, other, order), addr |-> f]

RECURSIVE RemoveLoop(_, _, _)
RemoveLoop(hp, f, order) ==
    IF order = <<>> THEN hp
    ELSE RemoveLoop(FunctionsDelete(hp, f, Head(order)).heap, f, Tail(order))

(* A Remove that deletes a name only where both sets bind it to the same function. *)
FunctionsRemoveSame(hp, f, other, order) ==
    [heap |-> [hp EXCEPT ![f] =
                  [n \in {m \in DOMAIN hp[f] :
                             ~(m \in DOMAIN hp[other] /\ hp[other][m] = hp[f][m])} |-> hp[f][n]]],
     addr |-> f]

FunctionsRemove(hp, f, other, order) == [heap |-> RemoveLoop(hp, f, order), addr |-> f]

FunctionsDeepCopy(hp, f, order) ==
    [heap |-> Append(hp, CopyLoop(hp[f], order, NewFunctions)), addr |-> Len(hp) + 1]

----------------------------------------------------------------------------
(* Package builtin: the groups of built-in functions and AllFunctions.     *)

Entries(site, pairs) ==
    [n \in {p[1] : p \in pairs} |->
        [k |-> "func", f |-> (CHOOSE p \in pairs : p[1] = n)[2], site |-> site]]

CoreFunctions ==
    Entries("CoreFunctions",
        {<<"default", "defaultFunction">>, <<"delete", "deleteFunction">>,
         <<"do", "doFunction">>, <<"empty?", "isEmptyFunction">>,
         <<"has?", "hasFunction">>, <<"if", "ifFunction">>,
         <<"set", "setFunction">>, <<"try", "tryFunction">>})

LogicFunctions ==
    Entries("LogicFunctions",
        {<<"and", "andFunction">>, <<"or", "orFunction">>, <<"not", "notFunction">>})

ComparisonFunctions ==
    Entries("ComparisonFunctions",
        {<<"eq?", "makeEqualityFunc">>, <<"identical?", "makeEqualityFunc">>,
         <<"like?", "makeEqualityFunc">>, <<"lt?", "makeComparatorFunc">>,
         <<"lte?", "makeComparatorFunc">>, <<"gt?", "makeComparatorFunc">>,
         <<"gte?", "makeComparatorFunc">>})

MathFunctions ==
    Entries("MathFunctions",
        {<<"+", "sumFunction">>, <<"-", "subFunction">>, <<"*", "multiplyFunction">>,
         <<"/", "divideFunction">>, <<"sum", "sumFunction">>, <<"sub", "subFunction">>,
         <<"mult", "multiplyFunction">>, <<"div", "divideFunction">>})

StringsFunctions ==
    Entries("StringsFunctions",
        {<<"len", "lenFunction">>, <<"append", "appendFunction">>,
         <<"prepend", "prependFunction">>, <<"reverse", "reverseFunction">>,
         <<"contains?", "containsFunction">>, <<"concat", "concatFunction">>,
         <<"split", "splitFunction">>, <<"has-prefix?", "hasPrefixFunction">>,
         <<"has-suffix?", "hasSuffixFunction">>, <<"trim-prefix", "trimPrefixFunction">>,
         <<"trim-suffix", "trimSuffixFunction">>, <<"to-lower", "toLowerFunction">>,
         <<"to-upper", "toUpperFunction">>, <<"trim", "trimFunction">>})

ListsFunctions ==
    Entries("ListsFunctions",
        {<<"len", "lenFunction">>, <<"append", "appendFunction">>,
         <<"prepend", "prependFunction">>, <<"reverse", "reverseFunction">>,
         <<"contains?", "containsFunction">>, <<"range", "rangeFunction">>,
         <<"map", "mapFunction">>, <<"filter", "filterFunction">>})

HashingFunctions ==
    Entries("HashingFunctions",
        {<<"sha1", "sha1Function">>, <<"sha256", "sha256Function">>,
         <<"sha512", "sha512Function">>})

EncodingFunctions ==
    Entries("EncodingFunctions",
        {<<"to-base64", "toBase64Function">>, <<"from-base64", "fromBase64Function">>})

DateTimeFunctions == Entries("DateTimeFunctions", {<<"now", "nowFunction">>})

TypeFunctions ==
    Entries("TypeFunctions",
        {<<"type-of", "typeOfFunction">>, <<"to-bool", "toBoolFunction">>,
         <<"to-float", "toFloatFunction">>, <<"to-int", "toIntFunction">>,
         <<"to-string", "toStringFunction">>})

CoalescingContextFunctions ==
    Entries("CoalescingContextFunctions",
        {<<"strictly", "strictlyFunction">>, <<"pedantically", "pedanticallyFunction">>,
         <<"humanely", "humanelyFunction">>})

(* The arguments of the Add chain that builds AllFunctions, in its order. *)
AllFunctionsChain ==
    <<CoreFunctions, LogicFunctions, ComparisonFunctions, MathFunctions, StringsFunctions,
      ListsFunctions, HashingFunctions, EncodingFunctions, DateTimeFunctions,
      TypeFunctions, CoalescingContextFunctions>>

(* AllFunctions after the first n calls of its Add chain (orders: the order *)
(* of each call's loop).                                                    *)
RECURSIVE AllFunctionsAfter(_, _)
AllFunctionsAfter(n, orders) ==
    IF n = 0 THEN NewFunctions
    ELSE CHOOSE all \in
             {FunctionsAdd(<<before, AllFunctionsChain[n]>>, 1, 2, orders[n]).heap[1] :
                 before \in {AllFunctionsAfter(n - 1, orders)}} : TRUE

PkgLoaded ==
    [all |-> AllFunctionsAfter(Len(AllFunctionsChain),
                               [n \in DOMAIN AllFunctionsChain |->
                                   SomeOrder(DOMAIN AllFunctionsChain[n])]),
     added |-> Len(AllFunctionsChain)]

----------------------------------------------------------------------------
(* Context *)

Heap == [docs |-> docs, vmaps |-> vmaps, fmaps |-> fmaps]

(* A NewContext that keeps a nil coalescer instead of defaulting to strict. *)
NewContextNoDefault(h, doc, variables, funcs, coalescer) ==
    LET fH == IF funcs = NilAddr THEN Append(h.fmaps, NewFunctions) ELSE h.fmaps
        f == IF funcs = NilAddr THEN Len(h.fmaps) + 1 ELSE funcs
        vH == IF variables = NilAddr THEN Append(h.vmaps, NewVariables) ELSE h.vmaps
        v == IF variables = NilAddr THEN Len(h.vmaps) + 1 ELSE variables
    IN  [heap |-> [docs |-> Append(h.docs, doc), vmaps |-> vH, fmaps |-> fH],
         ctx |-> [document |-> Len(h.docs) + 1, funcs |-> f, variables |-> v,
                  coalescer |-> coalescer]]

(* A NewContext that keeps a pointer to the caller's Document instead of a *)
(* pointer to its own copy of it.                                          *)
NewContextKeepsCallersDocument(h, doc, variables, funcs, coalescer) ==
    LET fH == IF funcs = NilAddr THEN Append(h.fmaps, NewFunctions) ELSE h.fmaps
        f == IF funcs = NilAddr THEN Len(h.fmaps) + 1 ELSE funcs
        vH == IF variables = NilAddr THEN Append(h.vmaps, NewVariables) ELSE h.vmaps
        v == IF variables = NilAddr THEN Len(h.vmaps) + 1 ELSE variables
        c == IF coalescer = Nil THEN NewStrict ELSE coalescer
    IN  [heap |-> [docs |-> Append(h.docs, doc), vmaps |-> vH, fmaps |-> fH],
         ctx |-> [document |-> CHOOSE a \in DOMAIN h.docs : h.docs[a] = doc,
                  funcs |-> f, variables |-> v, coalescer |-> c]]

NewContext(h, doc, variables, funcs, coalescer) ==
    LET fH == IF funcs = NilAddr THEN Append(h.fmaps, NewFunctions) ELSE h.fmaps
        f == IF funcs = NilAddr THEN Len(h.fmaps) + 1 ELSE funcs
        vH == IF variables = NilAddr THEN Append(h.vmaps, NewVariables) ELSE h.vmaps
        v == IF variables = NilAddr THEN Len(h.vmaps) + 1 ELSE variables
        c == IF coalescer = Nil THEN NewStrict ELSE coalescer
    IN  [heap |-> [docs |-> Append(h.docs, doc), vmaps |-> vH, fmaps |-> fH],
         ctx |-> [document |-> Len(h.docs) + 1, funcs |-> f, variables |-> v, coalescer |-> c]]

Coalesce(c) == c.coalescer

GetDocument(c) == c.document

GetVariable(h, c, name) == VariablesGet(h.vmaps, c.variables, name)

GetFunction(h, c, name) == FunctionsGet(h.fmaps, c.funcs, name)

(* A WithVariable that sets the variable in the receiver's own set. *)
WithVariableInPlace(h, c, name, val, order) ==
    [heap |-> [h EXCEPT !.vmaps = VariablesSet(h.vmaps, c.variables, name, val).heap],
     ctx |-> c]

(* A WithVariable that gives the derived Context a Document copy of its own. *)
WithVariableCopiesDocument(h, c, name, val, order) ==
    LET w == VariablesWith(h.vmaps, c.variables, name, val, order)
    IN  [heap |-> [h EXCEPT !.vmaps = w.heap, !.docs = Append(h.docs, h.docs[c.document])],
         ctx |-> [document |-> Len(h.docs) + 1, funcs |-> c.funcs,
                  variables |-> w.addr, coalescer |-> c.coalescer]]

WithVariable(h, c, name, val, order) ==
    LET w == VariablesWith(h.vmaps, c.variables, name, val, order)
    IN  [heap |-> [h EXCEPT !.vmaps = w.heap],
         ctx |-> [document |-> c.document, funcs |-> c.funcs,
                  variables |-> w.addr, coalescer |-> c.coalescer]]

(* A WithCoalescer that keeps a Document copy of its own. *)
WithCoalescerCopiesDocument(h, c, coalescer) ==
    [heap |-> [h EXCEPT !.docs = Append(h.docs, h.docs[c.document])],
     ctx |-> [document |-> Len(h.docs) + 1, funcs |-> c.funcs,
              variables |-> c.variables, coalescer |-> coalescer]]

WithCoalescer(h, c, coalescer) ==
    [heap |-> h,
     ctx |-> [document |-> c.document, funcs |-> c.funcs,
              variables |-> c.variables, coalescer |-> coalescer]]

----------------------------------------------------------------------------
(* The host program deriving Contexts (specification Spec).  The host   *)
(* has built its document, variables and functions before the first call:  *)
(* docs[1] is the host's own Document value, vmaps[1] and fmaps[1] the     *)
(* sets it passes to NewContext.                                           *)

Idle == [status |-> "idle"]

Call(op, recv, arg, name, val, res) ==
    [op |-> op, recv |-> recv, arg |-> arg, name |-> name, val |-> val, res |-> res]

NoCall == Call("none", NilAddr, NilAddr, "", Nil, NilAddr)

Init ==
    /\ docs = <<NewDocument(DocumentData0)>>
    /\ vmaps = <<MapPut(NewVariables, "x", VInt(1))>>
    /\ fmaps = <<MapPut(NewFunctions, "f", Func("F1"))>>
    /\ ctxs = <<>>
    /\ lineage = <<>>
    /\ last = NoCall
    /\ pkg = PkgLoaded
    /\ ev = Idle

Roots == {i \in DOMAIN lineage : lineage[i].via = "NewContext"}

HostNewContext ==
    \E variables \in {NilAddr, 1}, funcs \in {NilAddr, 1}, coalescer \in {Nil} \cup Coalescers :
        LET r == NewContext(Heap, docs[1], variables, funcs, coalescer)
        IN  /\ Len(ctxs) < MaxCtx
            /\ Roots = {}    \* one Context is made per Run
            /\ docs' = r.heap.docs
            /\ vmaps' = r.heap.vmaps
            /\ fmaps' = r.heap.fmaps
            /\ ctxs' = Append(ctxs, r.ctx)
            /\ lineage' = Append(lineage,
                   [via |-> "NewContext", parent |-> 0, root |-> Len(ctxs) + 1,
                    variables |-> variables, funcs |-> funcs, coalescer |-> coalescer,
                    name |-> "", val |-> Nil])
            /\ UNCHANGED <<last, pkg, ev>>

HostWithVariable ==
    \E i \in DOMAIN ctxs, name \in Names, val \in Values :
        \E order \in Orders(DOMAIN vmaps[ctxs[i].variables]) :
            LET r == WithVariable(Heap, ctxs[i], name, val, order)
            IN  /\ Len(ctxs) < MaxCtx
                /\ docs' = r.heap.docs
                /\ vmaps' = r.heap.vmaps
                /\ fmaps' = r.heap.fmaps
                /\ ctxs' = Append(ctxs, r.ctx)
                /\ lineage' = Append(lineage,
                       [via |-> "WithVariable", parent |-> i, root |-> lineage[i].root,
                        variables |-> NilAddr, funcs |-> NilAddr, coalescer |-> Nil,
                        name |-> name, val |-> val])
                /\ UNCHANGED <<last, pkg, ev>>

HostWithCoalescer ==
    \E i \in DOMAIN ctxs, coalescer \in Coalescers :
        LET r == WithCoalescer(Heap, ctxs[i], coalescer)
        IN  /\ Len(ctxs) < MaxCtx
            /\ docs' = r.heap.docs
            /\ vmaps' = r.heap.vmaps
            /\ fmaps' = r.heap.fmaps
            /\ ctxs' = Append(ctxs, r.ctx)
            /\ lineage' = Append(lineage,
                   [via |-> "WithCoalescer", parent |-> i, root |-> lineage[i].root,
                    variables |-> NilAddr, funcs |-> NilAddr, coalescer |-> coalescer,
                    name |-> "", val |-> Nil])
            /\ UNCHANGED <<last, pkg, ev>>

HostDocumentSet ==
    \E i \in DOMAIN ctxs, x \in Values :
        /\ docs' = DocumentSet(docs, GetDocument(ctxs[i]), x)
        /\ UNCHANGED <<vmaps, fmaps, ctxs, lineage, last, pkg, ev>>

Next ==
    \/ HostNewContext
    \/ HostWithVariable
    \/ HostWithCoalescer
    \/ HostDocumentSet

Spec == Init /\ [][Next]_vars

----------------------------------------------------------------------------
(* The host program building variable sets (specification SpecVars).       *)

InitVars ==
    /\ docs = <<NewDocument(DocumentData0)>>
    /\ vmaps = <<>>
    /\ fmaps = <<>>
    /\ ctxs = <<>>
    /\ lineage = <<>>
    /\ last = NoCall
    /\ pkg = PkgLoaded
    /\ ev = Idle

HostNewVariables ==
    /\ Len(vmaps) < MaxVarSets
    /\ vmaps' = Append(vmaps, NewVariables)
    /\ last' = Call("NewVariables", NilAddr, NilAddr, "", Nil, Len(vmaps) + 1)
    /\ UNCHANGED <<docs, fmaps, ctxs, lineage, pkg, ev>>

HostVariablesSet ==
    \E v \in DOMAIN vmaps, name \in Names, val \in Values :
        LET r == VariablesSet(vmaps, v, name, val)
        IN  /\ vmaps' = r.heap
            /\ last' = Call("Set", v, NilAddr, name, val, r.addr)
            /\ UNCHANGED <<docs, fmaps, ctxs, lineage, pkg, ev>>

HostVariablesWith ==
    \E v \in DOMAIN vmaps, name \in Names, val \in Values :
        \E order \in Orders(DOMAIN vmaps[v]) :
            LET r == VariablesWith(vmaps, v, name, val, order)
            IN  /\ Len(vmaps) < MaxVarSets
                /\ vmaps' = r.heap
                /\ last' = Call("With", v, NilAddr, name, val, r.addr)
                /\ UNCHANGED <<docs, fmaps, ctxs, lineage, pkg, ev>>

NextVars ==
    \/ HostNewVariables
    \/ HostVariablesSet
    \/ HostVariablesWith

SpecVars == InitVars /\ [][NextVars]_vars

----------------------------------------------------------------------------
(* The host program changing the sets it passed to NewContext              *)
(* (specification SpecHost).                                               *)

HostPassedVariablesSet ==
    \E name \in Names, val \in Values :
        /\ vmaps' = VariablesSet(vmaps, 1, name, val).heap
        /\ UNCHANGED <<docs, fmaps, ctxs, lineage, last, pkg, ev>>

HostPassedFunctionsSet ==
    \E name \in FuncNames, fun \in Funcs :
        /\ fmaps' = FunctionsSet(fmaps, 1, name, fun).heap
        /\ UNCHANGED <<docs, vmaps, ctxs, lineage, last, pkg, ev>>

HostPassedFunctionsDelete ==
    \E name \in FuncNames :
        /\ fmaps' = FunctionsDelete(fmaps, 1, name).heap
        /\ UNCHANGED <<docs, vmaps, ctxs, lineage, last, pkg, ev>>

NextHost ==
    \/ HostNewContext
    \/ HostWithCoalescer
    \/ HostDocumentSet
    \/ HostPassedVariablesSet
    \/ HostPassedFunctionsSet
    \/ HostPassedFunctionsDelete

SpecHost == Init /\ [][NextHost]_vars

----------------------------------------------------------------------------
(* What a Context lets its holder observe, the document aside. *)

Observed(h, c) ==
    [variables |-> [n \in Names |-> GetVariable(h, c, n)],
     funcs |-> [f \in FuncNames |-> GetFunction(h, c, f)],
     coalescer |-> Coalesce(c)]

SameFamily(i, j) == lineage[i].root = lineage[j].root

Found(val) == [val |-> val, ok |-> TRUE]

----------------------------------------------------------------------------
(* C1: every Context derived from a Context c by WithVariable and          *)
(* WithCoalescer calls holds the document handle of c, and a Document.Set  *)
(* through any of them is what Document.Data returns through each of them. *)

C1_SameHandle ==
    \A i, j \in DOMAIN ctxs :
        SameFamily(i, j) => GetDocument(ctxs[i]) = GetDocument(ctxs[j])

C1_SetIsSeen ==
    \A i \in DOMAIN ctxs, x \in Values :
        docs' = DocumentSet(docs, GetDocument(ctxs[i]), x) /\ ctxs' = ctxs =>
            \A j \in DOMAIN ctxs :
                SameFamily(i, j) => DocumentData(docs', GetDocument(ctxs'[j])) = x

C1_SharedDocument == [](C1_SameHandle) /\ [][C1_SetIsSeen]_vars

C1_Witness ==
    \E i, j, k \in DOMAIN ctxs :
        /\ lineage[i].via = "NewContext"
        /\ lineage[j].via = "WithVariable" /\ lineage[j].parent = i
        /\ lineage[k].via = "WithCoalescer" /\ lineage[k].parent = j
        /\ DocumentData(docs, GetDocument(ctxs[k])) = VInt(2)

----------------------------------------------------------------------------
(* C2: WithVariable and WithCoalescer leave every existing Context as it   *)
(* was (variables, functions, coalescer), and the Context they return      *)
(* differs from the receiver in the one field only.                        *)

C2_Step ==
    Len(ctxs') = Len(ctxs) + 1 /\ lineage'[Len(ctxs')].via # "NewContext" =>
        LET l == lineage'[Len(ctxs')]
            d == ctxs'[Len(ctxs')]
            before == Observed(Heap, ctxs[l.parent])
            after == Observed(Heap', d)
        IN  /\ \A i \in DOMAIN ctxs : Observed(Heap', ctxs'[i]) = Observed(Heap, ctxs[i])
            /\ GetDocument(d) = GetDocument(ctxs[l.parent])
            /\ after.funcs = before.funcs
            /\ l.via = "WithVariable" =>
                   /\ after.variables[l.name] = Found(l.val)
                   /\ \A n \in Names \ {l.name} : after.variables[n] = before.variables[n]
                   /\ after.coalescer = before.coalescer
            /\ l.via = "WithCoalescer" =>
                   /\ after.coalescer = l.coalescer
                   /\ after.variables = before.variables

C2_WithLeavesReceiver == [][C2_Step]_vars

C2_Witness ==
    \E j, k \in DOMAIN ctxs :
        /\ lineage[j].via = "WithVariable"
        /\ GetVariable(Heap, ctxs[lineage[j].parent], lineage[j].name).ok
        /\ GetVariable(Heap, ctxs[lineage[j].parent], lineage[j].name).val # lineage[j].val
        /\ lineage[k].via = "WithCoalescer"
        /\ Coalesce(ctxs[lineage[k].parent]) # Coalesce(ctxs[k])

----------------------------------------------------------------------------
(* C3: Variables.With returns a new set and leaves the receiver (and every *)
(* other set) with the bindings it had; the new set binds name to val and  *)
(* agrees with the receiver elsewhere.  Variables.Set changes the receiver *)
(* and nothing else, and returns the receiver.                             *)

C3_WithStep ==
    last'.op = "With" /\ last' # last =>
        /\ last'.res \notin DOMAIN vmaps
        /\ last'.res \in DOMAIN vmaps'
        /\ \A u \in DOMAIN vmaps : vmaps'[u] = vmaps[u]
        /\ VariablesGet(vmaps', last'.res, last'.name) = Found(last'.val)
        /\ \A n \in Names \ {last'.name} :
               VariablesGet(vmaps', last'.res, n) = VariablesGet(vmaps, last'.recv, n)

C3_SetStep ==
    last'.op = "Set" =>
        /\ last'.res = last'.recv
        /\ DOMAIN vmaps' = DOMAIN vmaps
        /\ \A u \in DOMAIN vmaps \ {last'.recv} : vmaps'[u] = vmaps[u]
        /\ VariablesGet(vmaps', last'.recv, last'.name) = Found(last'.val)
        /\ \A n \in Names \ {last'.name} :
               VariablesGet(vmaps', last'.recv, n) = VariablesGet(vmaps, last'.recv, n)

C3_WithIsNonMutating == [][C3_WithStep /\ C3_SetStep]_vars

(* w := v.With(name, val) has returned, and v still binds name to another value. *)
C3_Witness ==
    /\ last.op = "With"
    /\ VariablesGet(vmaps, last.recv, last.name).ok
    /\ VariablesGet(vmaps, last.recv, last.name).val # last.val
    /\ VariablesGet(vmaps, last.res, last.name) = Found(last.val)

----------------------------------------------------------------------------
(* C4: once NewContext has returned c, no call on anything but the         *)
(* document changes what c lets its holder observe.                        *)

C4_ContextIsImmutable ==
    [][\A i \in DOMAIN ctxs : Observed(Heap', ctxs'[i]) = Observed(Heap, ctxs[i])]_vars

----------------------------------------------------------------------------
(* C6: NewContext replaces a nil coalescer by the strict one, nil          *)
(* variables and nil functions by empty sets, and keeps every argument     *)
(* that is not nil.                                                        *)

RECURSIVE OnlyWithVariable(_)
OnlyWithVariable(j) ==
    \/ lineage[j].via = "NewContext"
    \/ lineage[j].via = "WithVariable" /\ OnlyWithVariable(lineage[j].parent)

C6_Defaults ==
    \A j \in DOMAIN ctxs :
        LET r == lineage[j].root
            given == lineage[r]
        IN  /\ given.coalescer = Nil /\ OnlyWithVariable(j) => Coalesce(ctxs[j]) = NewStrict
            /\ given.coalescer # Nil => Coalesce(ctxs[r]) = given.coalescer
            /\ given.variables = NilAddr =>
                   \A n \in Names : ~GetVariable(Heap, ctxs[r], n).ok
            /\ given.variables = NilAddr /\ lineage[j].via = "WithVariable" =>
                   GetVariable(Heap, ctxs[j], lineage[j].name) = Found(lineage[j].val)
            /\ given.variables # NilAddr => ctxs[r].variables = given.variables
            /\ given.funcs = NilAddr =>
                   \A f \in FuncNames : ~GetFunction(Heap, ctxs[j], f).ok
            /\ given.funcs # NilAddr => ctxs[r].funcs = given.funcs

C6_Witness ==
    \E i, j \in DOMAIN ctxs :
        /\ lineage[i].via = "NewContext"
        /\ lineage[i].coalescer = Nil
        /\ lineage[i].variables = NilAddr
        /\ lineage[i].funcs = NilAddr
        /\ lineage[j].via = "WithVariable" /\ lineage[j].parent = i

----------------------------------------------------------------------------
(* Package builtin initializing AllFunctions, then a host program          *)
(* building function sets (specification SpecFuncs).                       *)

InitFuncs ==
    /\ docs = <<NewDocument(DocumentData0)>>
    /\ vmaps = <<>>
    /\ fmaps = <<>>
    /\ ctxs = <<>>
    /\ lineage = <<>>
    /\ last = NoCall
    /\ pkg = [all |-> NewFunctions, added |-> 0]
    /\ ev = Idle

PkgInitialized == pkg.added = Len(AllFunctionsChain)

PackageAdd ==
    /\ ~PkgInitialized
    /\ \E order \in Orders(DOMAIN AllFunctionsChain[pkg.added + 1]) :
           LET r == FunctionsAdd(<<pkg.all, AllFunctionsChain[pkg.added + 1]>>, 1, 2, order)
           IN  pkg' = [all |-> r.heap[1], added |-> pkg.added + 1]
    /\ UNCHANGED <<docs, vmaps, fmaps, ctxs, lineage, last, ev>>

HostNewFunctions ==
    /\ PkgInitialized
    /\ Len(fmaps) < MaxFuncSets
    /\ fmaps' = Append(fmaps, NewFunctions)
    /\ last' = Call("NewFunctions", NilAddr, NilAddr, "", Nil, Len(fmaps) + 1)
    /\ UNCHANGED <<docs, vmaps, ctxs, lineage, pkg, ev>>

HostFunctionsSet ==
    \E f \in DOMAIN fmaps, name \in FuncNames, fun \in Funcs :
        LET r == FunctionsSet(fmaps, f, name, fun)
        IN  /\ fmaps' = r.heap
            /\ last' = Call("Set", f, NilAddr, name, fun, r.addr)
            /\ UNCHANGED <<docs, vmaps, ctxs, lineage, pkg, ev>>

HostFunctionsDelete ==
    \E f \in DOMAIN fmaps, name \in FuncNames :
        LET r == FunctionsDelete(fmaps, f, name)
        IN  /\ fmaps' = r.heap
            /\ last' = Call("Delete", f, NilAddr, name, Nil, r.addr)
            /\ UNCHANGED <<docs, vmaps, ctxs, lineage, pkg, ev>>

HostFunctionsAdd ==
    \E f \in DOMAIN fmaps, other \in DOMAIN fmaps :
        \E order \in Orders(DOMAIN fmaps[other]) :
            LET r == FunctionsAdd(fmaps, f, other, order)
            IN  /\ fmaps' = r.heap
                /\ last' = Call("Add", f, other, "", Nil, r.addr)
                /\ UNCHANGED <<docs, vmaps, ctxs, lineage, pkg, ev>>

HostFunctionsRemove ==
    \E f \in DOMAIN fmaps, other \in DOMAIN fmaps :
        \E order \in Orders(DOMAIN fmaps[other]) :
            LET r == FunctionsRemove(fmaps, f, other, order)
            IN  /\ fmaps' = r.heap
                /\ last' = Call("Remove", f, other, "", Nil, r.addr)
                /\ UNCHANGED <<docs, vmaps, ctxs, lineage, pkg, ev>>

HostFunctionsDeepCopy ==
    \E f \in DOMAIN fmaps :
        \E order \in Orders(DOMAIN fmaps[f]) :
            LET r == FunctionsDeepCopy(fmaps, f, order)
            IN  /\ Len(fmaps) < MaxFuncSets
                /\ fmaps' = r.heap
                /\ last' = Call("DeepCopy", f, NilAddr, "", Nil, r.addr)
                /\ UNCHANGED <<docs, vmaps, ctxs, lineage, pkg, ev>>

NextFuncs ==
    \/ PackageAdd
    \/ HostNewFunctions
    \/ HostFunctionsSet
    \/ HostFunctionsDelete
    \/ HostFunctionsAdd
    \/ HostFunctionsRemove
    \/ HostFunctionsDeepCopy

SpecFuncs == InitFuncs /\ [][NextFuncs]_vars

----------------------------------------------------------------------------
(* C5: f.Add(other) binds in f the names of f and of other, each name of   *)
(* other to other's function and every other name to the function f had;  *)
(* other, when it is another set, is left as it was.  AllFunctions, built  *)
(* by a chain of Add calls, binds every name of every group added so far   *)
(* to the entry of the last group that has it; the names shared by         *)
(* StringsFunctions and ListsFunctions end up with the entry of            *)
(* ListsFunctions.                                                         *)

C5_AddStep ==
    last'.op = "Add" =>
        LET f == last'.recv
            o == last'.arg
        IN  /\ last'.res = f
            /\ DOMAIN fmaps' = DOMAIN fmaps
            /\ DOMAIN fmaps'[f] = (DOMAIN fmaps[f]) \cup (DOMAIN fmaps[o])
            /\ \A n \in DOMAIN fmaps[o] : fmaps'[f][n] = fmaps[o][n]
            /\ \A n \in (DOMAIN fmaps[f]) \ (DOMAIN fmaps[o]) : fmaps'[f][n] = fmaps[f][n]
            /\ \A u \in DOMAIN fmaps \ {f} : fmaps'[u] = fmaps[u]

GroupsWith(n, upto) == {i \in 1..upto : n \in DOMAIN AllFunctionsChain[i]}

LastGroupWith(n, upto) ==
    CHOOSE i \in GroupsWith(n, upto) : \A j \in GroupsWith(n, upto) : j <= i

C5_AllFunctions ==
    /\ DOMAIN pkg.all = UNION {DOMAIN AllFunctionsChain[i] : i \in 1..pkg.added}
    /\ \A n \in DOMAIN pkg.all :
           pkg.all[n] = AllFunctionsChain[LastGroupWith(n, pkg.added)][n]
    /\ PkgInitialized =>
           \A n \in {"len", "append", "prepend", "reverse", "contains?"} :
               /\ n \in DOMAIN StringsFunctions
               /\ n \in DOMAIN ListsFunctions
               /\ pkg.all[n] = ListsFunctions[n]
               /\ pkg.all[n] # StringsFunctions[n]

C5_AddIsUnion == [](C5_AllFunctions) /\ [][C5_AddStep]_vars

(* f.Add(other) has returned for another set other that binds a name, and  *)
(* f binds a name that other does not.                                     *)
C5_Witness ==
    /\ PkgInitialized
    /\ last.op = "Add"
    /\ last.recv # last.arg
    /\ DOMAIN fmaps[last.arg] # {}
    /\ DOMAIN fmaps[last.recv] # DOMAIN fmaps[last.arg]

----------------------------------------------------------------------------
(* The values of a document: null, integers and objects; paths are         *)
(* sequences of keys.                                                      *)

VNull == [k |-> "null"]

VObj(m) == [k |-> "obj", m |-> m]

Ok(v) == [val |-> v, ok |-> TRUE]

Err == [val |-> Nil, ok |-> FALSE]

Paths == {<<"a">>, <<"b">>, <<"a", "b">>}

WriteValues == {VInt(1), VNull, VObj(EmptyMap)}

IsPrefix(p, q) == Len(p) <= Len(q) /\ SubSeq(q, 1, Len(p)) = p

(* Path navigator: read. *)
RECURSIVE PathGet(_, _)
PathGet(v, path) ==
    IF path = <<>> THEN Ok(v)
    ELSE IF v.k # "obj" THEN Err
    ELSE IF Head(path) \notin DOMAIN v.m THEN Err
    ELSE PathGet(v.m[Head(path)], Tail(path))

(* Path navigator: write.  A null or absent container on the way is made *)
(* an object.                                                             *)
RECURSIVE PathSet(_, _, _)
PathSet(v, path, new) ==
    IF path = <<>> THEN Ok(new)
    ELSE IF v.k = "null"
         THEN Ok(VObj(MapPut(EmptyMap, Head(path), PathSet(VNull, Tail(path), new).val)))
    ELSE IF v.k = "obj"
         THEN LET child == IF Head(path) \in DOMAIN v.m THEN v.m[Head(path)] ELSE VNull
                  sub == PathSet(child, Tail(path), new)
              IN  IF sub.ok THEN Ok(VObj(MapPut(v.m, Head(path), sub.val))) ELSE Err
    ELSE Err

----------------------------------------------------------------------------
(* The evaluator.  ctxs is the stack of Contexts of the expressions being  *)
(* evaluated: ctxs[1] is the Context of the Run, a child scope pushes the  *)
(* Context it derives with WithVariable, try pushes a copy of its caller's *)
(* Context.  The top of the stack evaluates.                               *)

DocTarget(path) == [kind |-> "doc", path |-> path]

VarTarget(name) == [kind |-> "var", name |-> name]

Root(h, c) == DocumentData(h.docs, GetDocument(c))

ReadTarget(h, c, target) ==
    IF target.kind = "doc" THEN PathGet(Root(h, c), target.path)
    ELSE LET g == GetVariable(h, c, target.name) IN IF g.ok THEN Ok(g.val) ELSE Err

(* What the built-in functions set and + return. *)
CallFunction(h, c, head, target, arg) ==
    IF head = "set" THEN Ok(arg)
    ELSE LET cur == ReadTarget(h, c, target)
         IN  IF cur.ok /\ cur.val.k = "int" /\ arg.k = "int"
             THEN Ok(VInt(cur.val.i + arg.i))
             ELSE Err

(* A tuple that writes its result back whether or not its head has the ! modifier. *)
EvalTupleAlwaysWrites(h, c, head, bang, target, arg, order) ==
    LET fn == GetFunction(h, c, head)
        r == IF fn.ok THEN CallFunction(h, c, head, target, arg) ELSE Err
        root == PathSet(Root(h, c), target.path, r.val)
    IN  IF ~r.ok \/ ~root.ok THEN [heap |-> h, ctx |-> c, result |-> Err]
        ELSE [heap |-> [h EXCEPT !.docs = DocumentSet(h.docs, GetDocument(c), root.val)],
              ctx |-> c, result |-> r]

(* The tuple (head target arg), or (head! target arg) when bang. *)
EvalTuple(h, c, head, bang, target, arg, order) ==
    LET fn == GetFunction(h, c, head)
        r == IF fn.ok THEN CallFunction(h, c, head, target, arg) ELSE Err
    IN  IF ~r.ok THEN [heap |-> h, ctx |-> c, result |-> Err]
        ELSE IF ~bang THEN [heap |-> h, ctx |-> c, result |-> r]
        ELSE IF target.kind = "doc"
             THEN LET root == PathSet(Root(h, c), target.path, r.val)
                  IN  IF root.ok
                      THEN [heap |-> [h EXCEPT !.docs =
                                         DocumentSet(h.docs, GetDocument(c), root.val)],
                            ctx |-> c, result |-> r]
                      ELSE [heap |-> h, ctx |-> c, result |-> Err]
        ELSE LET w == WithVariable(h, c, target.name, r.val, order)
             IN  [heap |-> w.heap, ctx |-> w.ctx, result |-> r]

Top == Len(ctxs)

Running == ev.status = "running"

NoRebind == [name |-> "", val |-> Nil, scope |-> 0, defined |-> FALSE]

Frame(via, parent) ==
    [via |-> via, parent |-> parent, root |-> 1, variables |-> NilAddr, funcs |-> NilAddr,
     coalescer |-> Nil, name |-> "", val |-> Nil]

Root0 == VObj(MapPut(EmptyMap, "a", VInt(0)))

(* The functions the host passes to Run: the core and the math functions. *)
HostFunctions ==
    LET core == FunctionsAdd(<<NewFunctions, CoreFunctions>>, 1, 2,
                             SomeOrder(DOMAIN CoreFunctions)).heap[1]
    IN  FunctionsAdd(<<core, MathFunctions>>, 1, 2, SomeOrder(DOMAIN MathFunctions)).heap[1]

(* Program.Run(documentData, variables, functions, nil) has made its Context. *)
InitEval ==
    LET r == NewContext([docs |-> <<NewDocument(Root0)>>,
                         vmaps |-> <<MapPut(NewVariables, "x", VInt(1))>>,
                         fmaps |-> <<HostFunctions>>],
                        NewDocument(Root0), 1, 1, Nil)
    IN  /\ docs = r.heap.docs
        /\ vmaps = r.heap.vmaps
        /\ fmaps = r.heap.fmaps
        /\ ctxs = <<r.ctx>>
        /\ lineage = <<[Frame("NewContext", 0) EXCEPT !.variables = 1, !.funcs = 1]>>
        /\ last = NoCall
        /\ pkg = PkgLoaded
        /\ ev = [status |-> "running", last |-> [kind |-> "run"],
                 live |-> {}, claimed |-> {}, written |-> Err, raised |-> FALSE,
                 rebind |-> NoRebind]

TryFrames == {i \in DOMAIN lineage : lineage[i].via = "Try"}

(* An error unwinds to the nearest try, whose fallback is then evaluated in *)
(* the Context try was called with; with no try it ends the Run.            *)
Raise(heap, hist) ==
    /\ docs' = heap.docs
    /\ vmaps' = heap.vmaps
    /\ fmaps' = heap.fmaps
    /\ IF TryFrames = {}
       THEN /\ ctxs' = ctxs
            /\ lineage' = lineage
            /\ ev' = [hist EXCEPT !.status = "failed", !.raised = TRUE,
                                  !.last = [kind |-> "error", caught |-> FALSE]]
       ELSE LET t == CHOOSE i \in TryFrames : \A j \in TryFrames : j <= i
            IN  /\ ctxs' = Append(SubSeq(ctxs, 1, t - 1), ctxs[t - 1])
                /\ lineage' = Append(SubSeq(lineage, 1, t - 1), Frame("Fallback", t - 1))
                /\ ev' = [hist EXCEPT !.raised = TRUE,
                                      !.last = [kind |-> "error", caught |-> TRUE],
                                      !.rebind = IF @.scope >= t THEN NoRebind ELSE @]
    /\ UNCHANGED <<last, pkg>>

(* The nearest scope, from the evaluating one outwards, that introduced the *)
(* name; the root scope if none did.                                       *)
NearestDefining(name) ==
    LET defining == {j \in DOMAIN lineage :
                        lineage[j].via = "WithVariable" /\ lineage[j].name = name}
    IN  IF defining = {} THEN 1 ELSE CHOOSE j \in defining : \A i \in defining : i <= j

(* The history of a tuple that has been evaluated with result res. *)
Evaluated(head, bang, target, res) ==
    LET wrote == bang /\ target.kind = "doc"
        bound == bang /\ target.kind = "var"
        p == target.path
    IN  [ev EXCEPT
            !.last = [kind |-> "tuple", bang |-> bang, on |-> target.kind],
            !.live = IF wrote
                     THEN {e \in @ : ~IsPrefix(p, e[1]) /\ ~IsPrefix(e[1], p)} \cup {<<p, res>>}
                     ELSE @,
            !.claimed = IF wrote
                        THEN {e \in @ : ~IsPrefix(p, e[1])} \cup {<<p, res>>}
                        ELSE @,
            !.written = IF wrote THEN PathSet(Root(Heap, ctxs[Top]), p, res) ELSE @,
            !.rebind = IF ~bound THEN @
                       ELSE IF lineage[Top].via = "WithVariable"
                            THEN [name |-> target.name, val |-> res,
                                  scope |-> NearestDefining(target.name),
                                  defined |-> GetVariable(Heap, ctxs[NearestDefining(target.name)],
                                                          target.name).ok]
                       ELSE NoRebind]

EvalStatement(head, bang, target, arg, order) ==
    \E r \in {EvalTuple(Heap, ctxs[Top], head, bang, target, arg, order)} :
        /\ Running
        /\ Len(r.heap.vmaps) <= MaxVarSets
        /\ r.result.ok /\ r.result.val.k = "int" => r.result.val.i <= MaxInt
        /\ IF r.result.ok
           THEN /\ docs' = r.heap.docs
                /\ vmaps' = r.heap.vmaps
                /\ fmaps' = r.heap.fmaps
                /\ ctxs' = [ctxs EXCEPT ![Top] = r.ctx]
                /\ ev' = Evaluated(head, bang, target, r.result.val)
                /\ UNCHANGED <<lineage, last, pkg>>
           ELSE Raise(r.heap, ev)

(* A tuple on a path of the document: (set! .a {}), (+! .a 1), (set .a.b 1), *)
(* (+ .a 1).                                                                *)
EvalDocTuple ==
    \E path \in Paths :
        \/ \E arg \in WriteValues : EvalStatement("set", TRUE, DocTarget(path), arg, <<>>)
        \/ \E head \in {"set", "+"}, bang \in BOOLEAN :
               /\ head = "+" \/ ~bang
               /\ EvalStatement(head, bang, DocTarget(path), VInt(1), <<>>)

(* A tuple whose head names no function: (nope .a 1). *)
EvalUnknownFunction == EvalStatement("nope", FALSE, DocTarget(<<"a">>), VInt(1), <<>>)

(* A tuple on a variable: (set! $x 1), (set $x 1). *)
EvalVarTuple ==
    \E bang \in BOOLEAN, name \in Names, arg \in Values :
        \E order \in Orders(DOMAIN vmaps[ctxs[Top].variables]) :
            EvalStatement("set", bang, VarTarget(name), arg, order)

(* An identifier: .a.b or $x. *)
EvalIdentifier(target) ==
    \E r \in {ReadTarget(Heap, ctxs[Top], target)} :
        /\ Running
        /\ IF r.ok
           THEN /\ ev' = [ev EXCEPT !.last = [kind |-> "identifier", target |-> target]]
                /\ UNCHANGED <<docs, vmaps, fmaps, ctxs, lineage, last, pkg>>
           ELSE Raise(Heap, ev)

EvalDocIdentifier == \E path \in Paths : EvalIdentifier(DocTarget(path))

EvalVarIdentifier == \E name \in Names : EvalIdentifier(VarTarget(name))

(* A function that binds a name for its body (range, map, filter) starts the body. *)
EnterScope(name, val) ==
    \E order \in Orders(DOMAIN vmaps[ctxs[Top].variables]) :
        \E r \in {WithVariable(Heap, ctxs[Top], name, val, order)} :
            /\ Running
            /\ Len(ctxs) < MaxDepth
            /\ Len(r.heap.vmaps) <= MaxVarSets
            /\ docs' = r.heap.docs
            /\ vmaps' = r.heap.vmaps
            /\ fmaps' = r.heap.fmaps
            /\ ctxs' = Append(ctxs, r.ctx)
            /\ lineage' = Append(lineage, [Frame("WithVariable", Top) EXCEPT
                                              !.name = name, !.val = val])
            /\ ev' = [ev EXCEPT !.last = [kind |-> "enter"]]
            /\ UNCHANGED <<last, pkg>>

EnterLoopBody == EnterScope("y", VInt(1))

EnterAnyScope == \E name \in Names : EnterScope(name, VInt(2))

(* try starts evaluating its first argument. *)
EnterTry ==
    /\ Running
    /\ Len(ctxs) < MaxDepth
    /\ ctxs' = Append(ctxs, ctxs[Top])
    /\ lineage' = Append(lineage, Frame("Try", Top))
    /\ ev' = [ev EXCEPT !.last = [kind |-> "enter"]]
    /\ UNCHANGED <<docs, vmaps, fmaps, last, pkg>>

(* The body of a scope, or the argument of try that was evaluated, returns. *)
Leave ==
    /\ Running
    /\ Top > 1
    /\ ctxs' = SubSeq(ctxs, 1, Top - 1)
    /\ lineage' = SubSeq(lineage, 1, Top - 1)
    /\ ev' = [ev EXCEPT !.last = [kind |-> "leave"],
                        !.rebind = IF @.scope >= Top THEN NoRebind ELSE @]
    /\ UNCHANGED <<docs, vmaps, fmaps, last, pkg>>

(* The last statement has been evaluated: Run returns the document and the result. *)
Finish ==
    /\ Running
    /\ Top = 1
    /\ ev' = [ev EXCEPT !.status = "done", !.last = [kind |-> "return"]]
    /\ UNCHANGED <<docs, vmaps, fmaps, ctxs, lineage, last, pkg>>

NextEval ==
    \/ EvalDocTuple
    \/ EvalUnknownFunction
    \/ EvalDocIdentifier
    \/ EnterLoopBody
    \/ EnterTry
    \/ Leave
    \/ Finish

SpecEval == InitEval /\ [][NextEval]_vars

NextScope ==
    \/ EvalVarTuple
    \/ EvalVarIdentifier
    \/ EnterAnyScope
    \/ EnterTry
    \/ Leave
    \/ Finish

SpecScope == InitEval /\ [][NextScope]_vars

----------------------------------------------------------------------------
(* C7 (as amended): a tuple with the ! modifier on a variable, evaluated   *)
(* in a child scope, binds the name in the Context of that child scope     *)
(* only: that Context yields the new value, and no step changes what a     *)
(* Context of an enclosing scope yields for any name, so that after the    *)
(* child scope ends the enclosing scope observes the value it had before.  *)

Bindings(h, c) == [n \in Names |-> GetVariable(h, c, n)]

C7_Step ==
    /\ \A i \in DOMAIN ctxs :
           i < Len(ctxs) /\ i <= Len(ctxs') /\ lineage'[i].via = lineage[i].via
               => Bindings(Heap', ctxs'[i]) = Bindings(Heap, ctxs[i])
    /\ ev'.last.kind = "tuple" /\ ev'.last.bang /\ ev'.last.on = "var" /\ ev'.rebind.scope # 0
           => GetVariable(Heap', ctxs'[Len(ctxs')], ev'.rebind.name) = Found(ev'.rebind.val)

----------------------------------------------------------------------------
(* C8 (as amended): the value v that a tuple with the ! modifier wrote at  *)
(* path p is what p yields through the Context of every scope, and in the  *)
(* document the Run returns, until another write to p, to a prefix of p or *)
(* to a path that extends p.                                               *)

C8_Yields(entries) ==
    \A e \in entries : \A i \in DOMAIN ctxs : PathGet(Root(Heap, ctxs[i]), e[1]) = Ok(e[2])

C8_WritesAreVisible == C8_Yields(ev.live)

C8_Witness ==
    /\ Top > 1
    /\ lineage[Top].via = "WithVariable"
    /\ ev.last.kind = "identifier"
    /\ ev.last.target.kind = "doc"
    /\ ev.last.target.path = <<"a", "b">>
    /\ \E e \in ev.live : e[1] = ev.last.target.path
    /\ Cardinality(ev.live) > 1

(* C8 as stated: v is what p yields until another write to p or to a       *)
(* prefix of p.                                                            *)
C8_VisibleUntilPrefixWrite == C8_Yields(ev.claimed)

----------------------------------------------------------------------------
(* C9: an error changes nothing in the document: once an error has been    *)
(* raised, the document that every scope and the Run's result hold is the  *)
(* root that the last write produced; the step that raises an error leaves *)
(* the document as it is and either starts the fallback of the nearest try *)
(* on that document or ends the Run; and an ended Run takes no step.       *)

C9_Kept ==
    ev.raised /\ ev.written.ok
        => \A i \in DOMAIN ctxs : Root(Heap, ctxs[i]) = ev.written.val

C9_Raise ==
    ev'.last.kind = "error" =>
        /\ docs' = docs
        /\ IF ev'.last.caught
           THEN /\ ev'.status = "running"
                /\ lineage'[Len(ctxs')].via = "Fallback"
                /\ Root(Heap', ctxs'[Len(ctxs')]) = Root(Heap, ctxs[Top])
           ELSE /\ ev'.status = "failed"
                /\ TryFrames = {}

C9_NoRollback == [](C9_Kept) /\ [][Running /\ C9_Raise]_vars

C9_Witness ==
    /\ ev.last.kind = "error"
    /\ ev.last.caught
    /\ lineage[Top].via = "Fallback"
    /\ ev.written.ok
    /\ Root(Heap, ctxs[Top]) # Root0
    /\ ev.live # {}

----------------------------------------------------------------------------
(* C10: evaluating a tuple whose head has no ! modifier leaves the         *)
(* document as it was.                                                     *)

C10_Step ==
    ev'.last.kind = "tuple" /\ ~ev'.last.bang
        => /\ docs' = docs
           /\ \A i \in DOMAIN ctxs : Root(Heap', ctxs'[i]) = Root(Heap, ctxs[i])

C10_NoBangNoWrite == [][C10_Step]_vars

C10_Witness ==
    /\ ev.last.kind = "tuple"
    /\ ~ev.last.bang
    /\ ev.written.ok
    /\ Root(Heap, ctxs[Top]) # Root0

----------------------------------------------------------------------------
(* Programs with loops.  A program is a sequence of statements that run in *)
(* source order on a document whose root is a list:                        *)
(*   (append! . 1)                   appends to the root list,             *)
(*   (range . [y] (append! . $y))    appends each element it visits,       *)
(*   (range . [y] $y)                reads each element it visits,         *)
(*   (nope .)                        names no function.                    *)

VList(l) == [k |-> "list", l |-> l]

Statements ==
    {[op |-> "append", body |-> "none"], [op |-> "range", body |-> "append"],
     [op |-> "range", body |-> "read"], [op |-> "nope", body |-> "none"]}

RECURSIVE Programs(_)
Programs(n) ==
    IF n = 0 THEN {<<>>}
    ELSE Programs(n - 1) \cup
         {Append(p, st) : p \in {q \in Programs(n - 1) : Len(q) = n - 1}, st \in Statements}

Lists0 == {VList([i \in 1..n |-> VInt(1)]) : n \in 0..MaxItems}

(* The longest list a program of MaxStatements statements builds from a    *)
(* list of MaxItems elements: every statement at most doubles it.          *)
MaxList == (MaxItems + MaxStatements) * 2 ^ MaxStatements

NoLoop == [active |-> FALSE, items |-> <<>>, idx |-> 0]

(* Program.Run(documentData, variables, AllFunctions, nil) has made its Context. *)
InitRun ==
    \E root \in Lists0, prog \in Programs(MaxStatements) \ {<<>>} :
        LET r == NewContext([docs |-> <<NewDocument(root)>>,
                             vmaps |-> <<MapPut(NewVariables, "x", VInt(1))>>,
                             fmaps |-> <<PkgLoaded.all>>],
                            NewDocument(root), 1, 1, Nil)
        IN  /\ docs = r.heap.docs
            /\ vmaps = r.heap.vmaps
            /\ fmaps = r.heap.fmaps
            /\ ctxs = <<r.ctx>>
            /\ lineage = <<[Frame("NewContext", 0) EXCEPT !.variables = 1, !.funcs = 1]>>
            /\ last = NoCall
            /\ pkg = PkgLoaded
            /\ ev = [status |-> "running", prog |-> prog, pc |-> 1, loop |-> NoLoop,
                     visited |-> 0]

Terminated == ev.status \in {"done", "failed"}

Statement == ev.prog[ev.pc]

(* The collection a loop iterates over, read from the document as it is now. *)
LoopItemsLive(h, c, loop) == Root(h, c).l

(* The collection a loop iterates over: the one it found when it started. *)
LoopItems(h, c, loop) == loop.items

(* (append! . v): the root list with v appended is written back. *)
AppendBang(h, c, v) ==
    [h EXCEPT !.docs = DocumentSet(h.docs, GetDocument(c), VList(Append(Root(h, c).l, v)))]

(* The next statement of the program starts: a tuple resolves its head,    *)
(* append! writes, range evaluates its collection.                         *)
StartStatement ==
    /\ ev.status = "running"
    /\ ~ev.loop.active
    /\ ev.pc <= Len(ev.prog)
    /\ IF ~GetFunction(Heap, ctxs[1], Statement.op).ok
       THEN /\ ev' = [ev EXCEPT !.status = "failed"]
            /\ UNCHANGED docs
       ELSE IF Statement.op = "append"
       THEN /\ Len(Root(Heap, ctxs[1]).l) < MaxList
            /\ docs' = AppendBang(Heap, ctxs[1], VInt(1)).docs
            /\ ev' = [ev EXCEPT !.pc = @ + 1]
       ELSE /\ ev' = [ev EXCEPT !.loop = [active |-> TRUE, items |-> Root(Heap, ctxs[1]).l,
                                          idx |-> 0]]
            /\ UNCHANGED docs
    /\ UNCHANGED <<vmaps, fmaps, ctxs, lineage, last, pkg>>

(* range binds the next element for its body, or ends after the last one. *)
RangeNext ==
    /\ ev.status = "running"
    /\ ev.loop.active
    /\ Top = 1
    /\ \E items \in {LoopItems(Heap, ctxs[1], ev.loop)} :
           IF ev.loop.idx < Len(items)
           THEN \E order \in Orders(DOMAIN vmaps[ctxs[1].variables]) :
                    \E r \in {WithVariable(Heap, ctxs[1], "y", items[ev.loop.idx + 1], order)} :
                        /\ vmaps' = r.heap.vmaps
                        /\ ctxs' = Append(ctxs, r.ctx)
                        /\ lineage' = Append(lineage, [Frame("WithVariable", 1) EXCEPT
                                                          !.name = "y",
                                                          !.val = items[ev.loop.idx + 1]])
                        /\ ev' = [ev EXCEPT !.loop.idx = @ + 1, !.visited = 1]
           ELSE /\ ev' = [ev EXCEPT !.loop = NoLoop, !.pc = @ + 1]
                /\ UNCHANGED <<vmaps, ctxs, lineage>>
    /\ UNCHANGED <<docs, fmaps, last, pkg>>

(* The body of range is evaluated in the Context that binds the element,   *)
(* and returns: that Context and its variables are dropped.                *)
RangeBody ==
    /\ ev.status = "running"
    /\ ev.loop.active
    /\ Top = 2
    /\ IF Statement.body = "append"
       THEN /\ Len(Root(Heap, ctxs[2]).l) < MaxList
            /\ docs' = AppendBang(Heap, ctxs[2], GetVariable(Heap, ctxs[2], "y").val).docs
       ELSE /\ GetVariable(Heap, ctxs[2], "y").ok
            /\ UNCHANGED docs
    /\ ctxs' = SubSeq(ctxs, 1, 1)
    /\ lineage' = SubSeq(lineage, 1, 1)
    /\ vmaps' = SubSeq(vmaps, 1, Len(vmaps) - 1)
    /\ UNCHANGED <<fmaps, last, pkg, ev>>

(* After the last statement Run returns. *)
RunReturns ==
    /\ ev.status = "running"
    /\ ~ev.loop.active
    /\ ev.pc > Len(ev.prog)
    /\ ev' = [ev EXCEPT !.status = "done"]
    /\ UNCHANGED <<docs, vmaps, fmaps, ctxs, lineage, last, pkg>>

NextRun ==
    \/ StartStatement
    \/ RangeNext
    \/ RangeBody
    \/ RunReturns

(* Run is one sequential computation: while it has a step to take it takes one. *)
SpecRun == InitRun /\ [][NextRun]_vars /\ WF_vars(NextRun)

----------------------------------------------------------------------------
(* C11: every Run of a program comes to its end, with a result or with an  *)
(* error: its statements run in source order and a loop visits once each   *)
(* element of the collection that it found when it started.                *)

C11_Terminates == <>Terminated

C11_Witness ==
    /\ ev.status = "done"
    /\ ev.visited = 1
    /\ \E i \in DOMAIN ev.prog : ev.prog[i] = [op |-> "range", body |-> "append"]
    /\ Len(Root(Heap, ctxs[1]).l) >= 2 * MaxItems

----------------------------------------------------------------------------
(* Package datetime.  An instant is a number of hours since an epoch; a    *)
(* Time is an instant with the Location it is shown in, a Location being   *)
(* its offset from UTC in hours.  A layout names what Format renders: the  *)
(* hour ("15"), the day ("02") or the zone offset ("Z07").                 *)

Instants == 24..47

Locations == {-5, 0, 2}

UTC == 0

Layouts == {"15", "02", "Z07"}

(* time.Now(): the instant of the clock, in the Location Local of the process. *)
TimeNow(clock, local) == [instant |-> clock, loc |-> local]

(* Time.UTC(): the same instant, in the Location UTC. *)
TimeUTC(t) == [t EXCEPT !.loc = UTC]

(* Time.Format(layout): the wall clock of t in its Location. *)
TimeFormat(t, layout) ==
    LET wall == t.instant + t.loc
    IN  [k |-> "string", layout |-> layout,
         text |-> IF layout = "15" THEN wall % 24
                  ELSE IF layout = "02" THEN wall \div 24
                  ELSE t.loc]

nowFunction(clock, local, format) == Ok(TimeFormat(TimeNow(clock, local), format))

(* A process whose time zone is local calls (now format) when its clock    *)
(* shows the instant clock.                                                *)
InitNow ==
    /\ docs = <<NewDocument(DocumentData0)>>
    /\ vmaps = <<>>
    /\ fmaps = <<PkgLoaded.all>>
    /\ ctxs = <<>>
    /\ lineage = <<>>
    /\ last = NoCall
    /\ pkg = PkgLoaded
    /\ \E clock \in Instants, local \in Locations, format \in Layouts :
           ev = [status |-> "called", clock |-> clock, local |-> local, format |-> format,
                 result |-> Err]

NowReturns ==
    /\ ev.status = "called"
    /\ FunctionsGet(fmaps, 1, "now") = Found([k |-> "func", f |-> "nowFunction",
                                              site |-> "DateTimeFunctions"])
    /\ ev' = [ev EXCEPT !.status = "returned",
                        !.result = nowFunction(ev.clock, ev.local, ev.format)]
    /\ UNCHANGED <<docs, vmaps, fmaps, ctxs, lineage, last, pkg>>

NextNow == NowReturns

SpecNow == InitNow /\ [][NextNow]_vars

----------------------------------------------------------------------------
(* C12: what now returns is the instant of the clock rendered in UTC with  *)
(* the given layout, whatever the time zone of the process.                *)

C12_NowIsUTC ==
    ev.status = "returned"
        => ev.result = Ok(TimeFormat(TimeUTC(TimeNow(ev.clock, ev.local)), ev.format))

----------------------------------------------------------------------------
(* C13: f.Remove(other) returns f, leaves in f no name that other binds,   *)
(* whatever function f had for it, keeps every other name of f as it was,  *)
(* and changes no other set; f.Remove(f) leaves f empty; after             *)
(* f.Add(other).Remove(other) f has none of the names of other.            *)

C13_RemoveStep ==
    last'.op = "Remove" /\ pkg' = pkg =>
        LET f == last'.recv
            other == last'.arg
        IN  /\ last'.res = f
            /\ \A n \in DOMAIN fmaps[other] : ~FunctionsGet(fmaps', f, n).ok
            /\ \A n \in FuncNames \ DOMAIN fmaps[other] :
                   FunctionsGet(fmaps', f, n) = FunctionsGet(fmaps, f, n)
            /\ DOMAIN fmaps'[f] = DOMAIN fmaps[f] \ DOMAIN fmaps[other]
            /\ \A g \in DOMAIN fmaps : g # f => fmaps'[g] = fmaps[g]
            /\ DOMAIN fmaps' = DOMAIN fmaps
            /\ other = f => fmaps'[f] = NewFunctions
            /\ last.op = "Add" /\ last.recv = f /\ last.arg = other /\ other # f
                   => \A n \in DOMAIN fmaps[other] :
                          FunctionsGet(fmaps, f, n).ok /\ ~FunctionsGet(fmaps', f, n).ok

C13_RemoveDeletesNames == [][C13_RemoveStep]_vars

C13_Witness ==
    /\ last.op = "Remove"
    /\ last.recv # last.arg
    /\ fmaps[last.arg] # NewFunctions
    /\ fmaps[last.recv] # NewFunctions
    /\ \E n \in DOMAIN fmaps[last.arg] : fmaps[last.arg][n] = Func("F2")

----------------------------------------------------------------------------
(* A host that builds registries and copies its variable set. *)

Variables0 ==
    VariablesSet(VariablesSet(<<NewVariables>>, 1, "x", VInt(1)).heap, 1, "y", VInt(2)).heap[1]

InitOrder ==
    /\ docs = <<NewDocument(DocumentData0)>>
    /\ vmaps = <<Variables0>>
    /\ fmaps = <<>>
    /\ ctxs = <<>>
    /\ lineage = <<>>
    /\ last = NoCall
    /\ pkg = PkgLoaded
    /\ ev = Idle

HostVariablesDeepCopy ==
    \E v \in DOMAIN vmaps :
        \E order \in Orders(DOMAIN vmaps[v]) :
            LET r == VariablesDeepCopy(vmaps, v, order)
            IN  /\ Len(vmaps) < MaxVarSets
                /\ vmaps' = r.heap
                /\ last' = Call("Variables.DeepCopy", v, NilAddr, "", Nil, r.addr)
                /\ UNCHANGED <<docs, fmaps, ctxs, lineage, pkg, ev>>

NextOrder ==
    \/ HostNewFunctions
    \/ HostFunctionsSet
    \/ HostFunctionsAdd
    \/ HostFunctionsRemove
    \/ HostFunctionsDeepCopy
    \/ HostVariablesDeepCopy

SpecOrder == InitOrder /\ [][NextOrder]_vars

----------------------------------------------------------------------------
(* C14: what Functions.Add, Functions.Remove, Functions.DeepCopy and       *)
(* Variables.DeepCopy (through With) leave behind is what they would have  *)
(* left behind had they visited the entries of the map in any other order. *)

C14_Step ==
    /\ last'.op = "Add" =>
           \A order \in Orders(DOMAIN fmaps[last'.arg]) :
               fmaps' = FunctionsAdd(fmaps, last'.recv, last'.arg, order).heap
    /\ last'.op = "Remove" =>
           \A order \in Orders(DOMAIN fmaps[last'.arg]) :
               fmaps' = FunctionsRemove(fmaps, last'.recv, last'.arg, order).heap
    /\ last'.op = "DeepCopy" =>
           \A order \in Orders(DOMAIN fmaps[last'.recv]) :
               fmaps' = FunctionsDeepCopy(fmaps, last'.recv, order).heap
    /\ last'.op = "Variables.DeepCopy" =>
           \A order \in Orders(DOMAIN vmaps[last'.recv]) :
               vmaps' = VariablesDeepCopy(vmaps, last'.recv, order).heap

C14_OrderDoesNotMatter == [][C14_Step]_vars

C14_Witness ==
    /\ last.op = "Add"
    /\ last.recv # last.arg
    /\ Cardinality(DOMAIN fmaps[last.arg]) = 2
    /\ \E f \in DOMAIN fmaps : f > 1 /\ Cardinality(DOMAIN fmaps[f]) = 2
    /\ \E v \in DOMAIN vmaps : v > 1 /\ Cardinality(DOMAIN vmaps[v]) = 2

----------------------------------------------------------------------------
(* A host that makes several Contexts from the one Document value it holds. *)

HostNewContextFromSameDocument ==
    LET r == NewContext(Heap, docs[1], 1, 1, Nil)
    IN  /\ Len(ctxs) < MaxCtx
        /\ docs' = r.heap.docs
        /\ vmaps' = r.heap.vmaps
        /\ fmaps' = r.heap.fmaps
        /\ ctxs' = Append(ctxs, r.ctx)
        /\ lineage' = Append(lineage,
               [via |-> "NewContext", parent |-> 0, root |-> Len(ctxs) + 1,
                variables |-> 1, funcs |-> 1, coalescer |-> Nil,
                name |-> "", val |-> Nil])
        /\ UNCHANGED <<last, pkg, ev>>

NextTwo ==
    \/ HostNewContextFromSameDocument
    \/ HostWithCoalescer
    \/ HostDocumentSet

SpecTwo == Init /\ [][NextTwo]_vars

----------------------------------------------------------------------------
(* C15: a Set through the document handle of a Context changes what the    *)
(* Contexts derived from the same NewContext call read, and nothing else:  *)
(* the Document value the host passed to NewContext keeps its data, and so *)
(* does the document of every Context that stems from another NewContext   *)
(* call on that same Document value.                                       *)

C15_Step ==
    \A i \in DOMAIN ctxs :
        DocumentData(docs', GetDocument(ctxs[i])) # DocumentData(docs, GetDocument(ctxs[i])) =>
            /\ DocumentData(docs', 1) = DocumentData(docs, 1)
            /\ \A j \in DOMAIN ctxs :
                   ~SameFamily(i, j) =>
                       DocumentData(docs', GetDocument(ctxs[j])) =
                           DocumentData(docs, GetDocument(ctxs[j]))

C15_OwnDocumentHandle == [][C15_Step]_vars

C15_Witness ==
    \E i \in Roots, j \in Roots :
        /\ i # j
        /\ DocumentData(docs, GetDocument(ctxs[i])) = VInt(1)
        /\ DocumentData(docs, GetDocument(ctxs[j])) = VInt(2)
        /\ DocumentData(docs, 1) = DocumentData0

====
